---- MODULE Spec2Model ----
(***************************************************************************)
(* A model of nanodesign_transition/dna_structure.py: the derivation of    *)
(* helix base arrays, domains, helix connectivity and design crossovers    *)
(* from the per-base connectivity of a DNA structure.                      *)
(*                                                                         *)
(* Objects are addressed by integers: a base by its 1-based id (its index  *)
(* in base_connectivity), a helix by its index in structure_helices (its   *)
(* lattice_num is that index minus one), a Domain object by its index in   *)
(* the heap of all Domain objects ever constructed.  A list position p of  *)
(* a Python list is index p+1 of the sequence modelling it.                *)
(***************************************************************************)
EXTENDS Integers, Sequences, FiniteSets, TLC

VARIABLES
  base_connectivity,   \* self.base_connectivity: the DnaBase objects, by id
  strands,             \* self.strands: the DnaStrand objects
  strands_map,         \* self.strands_map: strand id -> position in strands
  structure_helices,   \* self.structure_helices: the DnaStructureHelix objects
  domain_list,         \* self.domain_list: references into domain_heap
  domain_heap,         \* every Domain object constructed so far
  pc,                  \* the statement of compute_aux_data() to run next
  error,               \* the last call ended in an exception
  last_call,           \* the public method called last
  num_calls,           \* public calls made so far
  compute_runs,        \* entries into _compute_domains() so far
  complete_runs,       \* normal returns from _compute_domains() so far
  lookup               \* the last get_strand(id) call: its id and what it returned

vars == <<base_connectivity, strands, strands_map, structure_helices,
          domain_list, domain_heap, pc, error, last_call, num_calls,
          compute_runs, complete_runs, lookup>>

-----------------------------------------------------------------------------
(* Bounds of the explored inputs and behaviours. *)

\* positions per helix of the enumerated single-helix designs
MaxPos == 4
\* positions per helix of the enumerated two-helix crossover designs
MaxXPos == 3
\* rows and columns of the enumerated lattice grids
MaxGrid == 3
\* public calls per behaviour
MaxCalls == 2

-----------------------------------------------------------------------------
(* Python values. *)

\* None in a slot of a helix base list (base ids start at 1)
None == 0
\* the value of DnaBase.domain before any domain is assigned to the base
Unset == -2

Sign(x) == IF x > 0 THEN 1 ELSE IF x < 0 THEN -1 ELSE 0

Abs(x) == IF x < 0 THEN -x ELSE x

-----------------------------------------------------------------------------
(* The input handed over by the design loader.  A design names the helices *)
(* (lattice row, column, scaffold polarity), the number of positions of a  *)
(* helix, the occupied sites <<lattice_num, role, position>> (role 0 is    *)
(* staple, 1 is scaffold), the strand links <<from site, to site>> (the    *)
(* `down` direction) and the positions <<lattice_num, position>> left      *)
(* unpaired.  Base ids are dense and 1-based, in site order.               *)

SiteAt(k, L) == <<k \div (2 * L), (k % (2 * L)) \div L, k % L>>

SiteSeq(d) ==
  LET n == Len(d.helices) * 2 * d.L
      all == [k \in 1..n |-> SiteAt(k - 1, d.L)]
      Occupied(s) == s \in d.sites
  IN SelectSeq(all, Occupied)

IdOf(seq, site) == CHOOSE i \in 1..Len(seq) : seq[i] = site

LinkTo(seq, d, site) ==
  IF \E l \in d.links : l[1] = site
    THEN IdOf(seq, (CHOOSE l \in d.links : l[1] = site)[2]) ELSE -1

LinkFrom(seq, d, site) ==
  IF \E l \in d.links : l[2] = site
    THEN IdOf(seq, (CHOOSE l \in d.links : l[2] = site)[1]) ELSE -1

AcrossOf(seq, d, site) ==
  LET other == <<site[1], 1 - site[2], site[3]>>
  IN IF other \in d.sites /\ <<site[1], site[3]>> \notin d.unpaired
       THEN IdOf(seq, other) ELSE -1

RECURSIVE StrandClosure(_, _)
StrandClosure(S, raw) ==
  LET T == S \cup {raw[i].up : i \in S} \cup {raw[i].down : i \in S}
      U == T \ {-1}
  IN IF U = S THEN S ELSE StrandClosure(U, raw)

SetMin(S) == CHOOSE x \in S : \A y \in S : x <= y

BuildBases(d) ==
  LET seq == SiteSeq(d)
      raw == [i \in 1..Len(seq) |->
                [up |-> LinkFrom(seq, d, seq[i]), down |-> LinkTo(seq, d, seq[i])]]
  IN [i \in 1..Len(seq) |->
        [id |-> i, h |-> seq[i][1], p |-> seq[i][3], is_scaf |-> (seq[i][2] = 1),
         up |-> raw[i].up, down |-> raw[i].down,
         across |-> AcrossOf(seq, d, seq[i]),
         strand |-> SetMin(StrandClosure({i}, raw)),
         domain |-> Unset]]

BuildStrands(bases) ==
  LET ids == {bases[i].strand : i \in 1..Len(bases)}
      all == [i \in 1..Len(bases) |-> [id |-> i, color |-> i,
                                       is_scaffold |-> bases[i].is_scaf]]
      IsStrand(s) == s.id \in ids
  IN SelectSeq(all, IsStrand)

BuildHelices(d) ==
  [k \in 1..Len(d.helices) |->
     [id |-> k, lattice_num |-> k - 1,
      lattice_row |-> d.helices[k].row, lattice_col |-> d.helices[k].col,
      scaffold_polarity |-> d.helices[k].polarity,
      hsize |-> d.L,
      staple_base_list |-> <<>>, scaffold_base_list |-> <<>>,
      domain_list |-> <<>>, helix_connectivity |-> <<>>]]

-----------------------------------------------------------------------------
(* The enumerated designs. *)

Row(h, r, ps) == {<<h, r, p>> : p \in ps}

\* links of role r along helix h between adjacent occupied positions, except
\* after the positions in nicks; staples run towards higher positions on
\* even helices, scaffolds the other way
Along(h, r, ps, nicks) ==
  LET fwd == ((h + r) % 2 = 0)
  IN {IF fwd THEN <<<<h, r, p>>, <<h, r, p + 1>>>> ELSE <<<<h, r, p + 1>>, <<h, r, p>>>> :
        p \in {q \in ps : q + 1 \in ps /\ q \notin nicks}}

OneHelix(pol) == <<[row |-> 0, col |-> 0, polarity |-> pol]>>

Polarities == {"3'", "5'"}

\* one helix: a nicked full staple row over any scaffold occupancy
NickedDesigns ==
  {[helices |-> OneHelix("3'"), L |-> L,
    sites |-> Row(0, 0, 0..(L - 1)) \cup Row(0, 1, m),
    links |-> Along(0, 0, 0..(L - 1), n) \cup Along(0, 1, m, {}),
    unpaired |-> {}] :
      <<L, n, m>> \in UNION {{<<L, n, m>> : n \in SUBSET (0..(L - 2)), m \in SUBSET (0..(L - 1))}
                              : L \in 1..MaxPos}}

\* one helix: a nicked full staple row over a full scaffold row, any positions unpaired
UnpairedDesigns ==
  {[helices |-> OneHelix("5'"), L |-> x[1],
    sites |-> Row(0, 0, 0..(x[1] - 1)) \cup Row(0, 1, 0..(x[1] - 1)),
    links |-> Along(0, 0, 0..(x[1] - 1), x[2]) \cup Along(0, 1, 0..(x[1] - 1), {}),
    unpaired |-> {<<0, p>> : p \in x[3]}] :
      x \in UNION {{<<L, n, u>> : n \in SUBSET (0..(L - 2)), u \in SUBSET (0..(L - 1))}
                     : L \in 1..MaxPos}}

\* one helix: any staple occupancy over a full or an empty scaffold row
SparseDesigns ==
  {[helices |-> OneHelix(x[4]), L |-> x[1],
    sites |-> Row(0, 0, x[2]) \cup Row(0, 1, x[3]),
    links |-> Along(0, 0, x[2], {}) \cup Along(0, 1, x[3], {}),
    unpaired |-> {}] :
      x \in UNION {{<<L, m, s, pol>> : m \in SUBSET (0..(L - 1)), s \in {0..(L - 1), {}},
                                       pol \in Polarities}
                     : L \in 1..MaxPos}}

\* two helices with full paired rows whose staples are re-routed by crossovers:
\* a crossover replaces the link along the helix out of its source and the one
\* into its target
Rerouted(L, xs) ==
  LET base == Along(0, 0, 0..(L - 1), {}) \cup Along(1, 0, 0..(L - 1), {})
  IN xs \cup {l \in base : \A x \in xs : x[1] # l[1] /\ x[2] # l[2]}

XoverCandidates(L) ==
  {<<<<h, 0, p>>, <<1 - h, 0, q>>>> : <<h, p, q>> \in
      {t \in (0..1) \X (0..(L - 1)) \X (0..(L - 1)) : Abs(t[2] - t[3]) <= 1}}

XoverSets(L) ==
  {xs \in SUBSET XoverCandidates(L) :
     /\ Cardinality(xs) <= 2
     /\ \A x, y \in xs : x # y => (x[1] # y[1] /\ x[2] # y[2])}

TwoHelices(row, col) ==
  <<[row |-> 0, col |-> 0, polarity |-> "5'"], [row |-> row, col |-> col, polarity |-> "3'"]>>

TwoHelixDesign(hs, L, xs) ==
  [helices |-> hs, L |-> L,
   sites |-> UNION {Row(h, r, 0..(L - 1)) : <<h, r>> \in (0..1) \X (0..1)},
   links |-> Rerouted(L, xs) \cup Along(0, 1, 0..(L - 1), {}) \cup Along(1, 1, 0..(L - 1), {}),
   unpaired |-> {}]

CrossoverDesigns ==
  {TwoHelixDesign(TwoHelices(rc[1], rc[2]), MaxXPos, xs) :
     <<rc, xs>> \in {<<0, 1>>, <<1, 1>>} \X XoverSets(MaxXPos)}

\* a rows x cols lattice grid of one-position helices
GridDesign(rows, cols) ==
  [helices |-> [k \in 1..(rows * cols) |->
                  [row |-> (k - 1) \div cols, col |-> (k - 1) % cols, polarity |-> "3'"]],
   L |-> 1,
   sites |-> {<<h, r, 0>> : <<h, r>> \in (0..(rows * cols - 1)) \X (0..1)},
   links |-> {},
   unpaired |-> {}]

GridDesigns == {GridDesign(r, c) : <<r, c>> \in (1..MaxGrid) \X (1..MaxGrid)}

\* the synthetic helix of the boundary test: positions 0..9, staple and
\* scaffold termini at 0 and 9, positions 4 and 5 unpaired
BoundaryDesigns ==
  {[helices |-> OneHelix(pol), L |-> 10,
    sites |-> Row(0, 0, 0..9) \cup Row(0, 1, 0..9),
    links |-> Along(0, 0, 0..9, {}) \cup Along(0, 1, 0..9, {}),
    unpaired |-> {<<0, 4>>, <<0, 5>>}] : pol \in Polarities}

\* the end-to-end scenario: two adjacent helices of 10 paired positions and
\* one staple crossover at position 5 between helix 0 and helix 1
EndToEndDesigns ==
  {TwoHelixDesign(TwoHelices(0, 1), 10, {x}) :
     x \in {<<<<0, 0, 5>>, <<1, 0, 5>>>>, <<<<1, 0, 5>>, <<0, 0, 5>>>>}}

\* two adjacent helices of two positions, each holding a staple row, a
\* scaffold row or both
PartialDesigns ==
  {[helices |-> TwoHelices(0, 1), L |-> 2,
    sites |-> UNION {Row(hr[1], hr[2], 0..1) : hr \in ({0} \X x[1]) \cup ({1} \X x[2])},
    links |-> UNION {Along(hr[1], hr[2], 0..1, {}) : hr \in ({0} \X x[1]) \cup ({1} \X x[2])},
    unpaired |-> {}] :
      x \in {{0}, {1}, {0, 1}} \X {{0}, {1}, {0, 1}}}

Designs ==
  NickedDesigns \cup UnpairedDesigns \cup SparseDesigns \cup CrossoverDesigns
    \cup GridDesigns \cup BoundaryDesigns \cup EndToEndDesigns \cup PartialDesigns

-----------------------------------------------------------------------------
(* DnaStructure._set_helix_bases *)

SetMax(S) == CHOOSE x \in S : \A y \in S : y <= x

\* variant: the role of the base is not looked at
SlotBaseAnyRole(bases, num, scaf, p) ==
  LET c == {i \in 1..Len(bases) : bases[i].h = num /\ bases[i].p = p}
  IN IF c = {} THEN None ELSE SetMax(c)

\* the base left in slot p of a role's list: the last base of
\* base_connectivity with that helix, role and position, or None
SlotBase(bases, num, scaf, p) ==
  LET c == {i \in 1..Len(bases) :
              bases[i].h = num /\ bases[i].is_scaf = scaf /\ bases[i].p = p}
  IN IF c = {} THEN None ELSE SetMax(c)

SetHelixBases(helices, bases) ==
  [k \in 1..Len(helices) |->
     [helices[k] EXCEPT
        !.staple_base_list =
           [i \in 1..helices[k].hsize |-> SlotBase(bases, helices[k].lattice_num, FALSE, i - 1)],
        !.scaffold_base_list =
           [i \in 1..helices[k].hsize |-> SlotBase(bases, helices[k].lattice_num, TRUE, i - 1)]]]

-----------------------------------------------------------------------------
(* DnaStructure.get_strand: the index is built when the dict is empty. *)

\* the empty dict
EmptyMap == [id \in {} |-> None]

\* variant: the dict is keyed by the strand's position in self.strands
BuildStrandsMapByPosition(smap, strs) ==
  IF DOMAIN smap = {} THEN [id \in 1..Len(strs) |-> id] ELSE smap

\* lines 94-96: a later strand with the same id overwrites an earlier one
BuildStrandsMap(smap, strs) ==
  IF DOMAIN smap = {}
    THEN [id \in {strs[i].id : i \in 1..Len(strs)} |->
            SetMax({i \in 1..Len(strs) : strs[i].id = id})]
    ELSE smap

\* get_strand(id): the dict after the call and the strand returned, a
\* position in self.strands or None
GetStrand(smap, strs, id) ==
  LET map == BuildStrandsMap(smap, strs)
  IN [smap |-> map, strand |-> IF id \notin DOMAIN map THEN None ELSE map[id]]

-----------------------------------------------------------------------------
(* DnaStructure._check_base_crossover *)

\* variant: only strand termini count, a change of helix does not
CheckBaseCrossoverTerminiOnly(base, bases) ==
  IF base.down = -1 THEN TRUE
  ELSE IF base.up = -1 THEN TRUE
  ELSE FALSE

CheckBaseCrossover(base, bases) ==
  IF base.down = -1 THEN TRUE
  ELSE IF bases[base.down].h # base.h THEN TRUE
  ELSE IF base.up = -1 THEN TRUE
  ELSE IF bases[base.up].h # base.h THEN TRUE
  ELSE FALSE

-----------------------------------------------------------------------------
(* DnaStructure._set_strand_breaks *)

\* start_pos: the first position holding a base, or -1
StartPos(base_list) ==
  IF \E i \in 1..Len(base_list) : base_list[i] # None
    THEN (CHOOSE i \in 1..Len(base_list) :
            base_list[i] # None /\ \A j \in 1..(i - 1) : base_list[j] = None) - 1
    ELSE -1

\* base_list[start_pos] with start_pos = -1 raises IndexError on an empty
\* list and yields None, whose .across raises AttributeError, otherwise
StrandBreaksRaises(base_list) == StartPos(base_list) = -1

\* variant: a sign change marks the current position only
StrandBreakStepCurrentOnly(i, strand_breaks, curr_across_base_sign, base, bases) ==
  LET across_base_sign == Sign(base.across)
  IN IF CheckBaseCrossover(base, bases)
       THEN [breaks |-> [strand_breaks EXCEPT ![i + 1] = TRUE],
             sign |-> Sign(base.across)]
     ELSE IF across_base_sign # curr_across_base_sign
       THEN [breaks |-> [strand_breaks EXCEPT ![i + 1] = TRUE],
             sign |-> Sign(base.across)]
     ELSE [breaks |-> strand_breaks, sign |-> curr_across_base_sign]

\* the body of the loop for a base at position i: the breaks and the carried
\* sign after it
StrandBreakStep(i, strand_breaks, curr_across_base_sign, base, bases) ==
  LET across_base_sign == Sign(base.across)
  IN IF CheckBaseCrossover(base, bases)
       THEN [breaks |-> [strand_breaks EXCEPT ![i + 1] = TRUE],
             sign |-> Sign(base.across)]
     ELSE IF across_base_sign # curr_across_base_sign
       THEN [breaks |-> [strand_breaks EXCEPT ![i] = TRUE, ![i + 1] = TRUE],
             sign |-> Sign(base.across)]
     ELSE [breaks |-> strand_breaks, sign |-> curr_across_base_sign]

RECURSIVE StrandBreaksLoop(_, _, _, _, _)
StrandBreaksLoop(i, strand_breaks, curr_across_base_sign, base_list, bases) ==
  IF i >= Len(base_list) THEN strand_breaks
  ELSE IF base_list[i + 1] = None
    THEN StrandBreaksLoop(i + 1, strand_breaks, curr_across_base_sign, base_list, bases)
  ELSE LET r == StrandBreakStep(i, strand_breaks, curr_across_base_sign,
                                bases[base_list[i + 1]], bases)
       IN StrandBreaksLoop(i + 1, r.breaks, r.sign, base_list, bases)

SetStrandBreaks(strand_breaks, base_list, bases) ==
  LET start_pos == StartPos(base_list)
      base == bases[base_list[start_pos + 1]]
  IN StrandBreaksLoop(start_pos + 1, [strand_breaks EXCEPT ![start_pos + 1] = TRUE],
                      Sign(base.across), base_list, bases)

-----------------------------------------------------------------------------
(* DnaStructure._compute_domains.  The loops thread a record st:           *)
(*   bases, heap, dlist (self.domain_list), helices, smap (strands_map),   *)
(*   num_domains, err.                                                     *)

\* nd.Domain(id, helix) followed by the stamping of strand and color
NewDomain(id, helix, strand) ==
  [id |-> id, helix |-> helix.lattice_num, strand |-> strand.id, color |-> strand.color,
   base_list |-> <<>>, connected_strand |-> -1, connected_domain |-> -1]

\* the inner loop over j: collect the bases of positions start..i
RECURSIVE CollectBases(_, _, _, _, _)
CollectBases(j, i, acc, base_list, reverse) ==
  IF j > i THEN acc
  ELSE IF base_list[j + 1] = None THEN CollectBases(j + 1, i, acc, base_list, reverse)
  ELSE CollectBases(j + 1, i,
                    IF reverse THEN <<base_list[j + 1]>> \o acc
                               ELSE Append(acc, base_list[j + 1]),
                    base_list, reverse)

CloseDomain(st, k, start, i, base_list, reverse, strs) ==
  LET base == st.bases[base_list[i + 1]]
      strand == strs[GetStrand(st.smap, strs, base.strand).strand]
      members == CollectBases(start, i, <<>>, base_list, reverse)
      domain == [NewDomain(st.num_domains, st.helices[k], strand) EXCEPT !.base_list = members]
      ref == Len(st.heap) + 1
      inside == {members[m] : m \in 1..Len(members)}
  IN [st EXCEPT
        !.smap = GetStrand(st.smap, strs, base.strand).smap,
        !.heap = Append(st.heap, domain),
        !.helices[k].domain_list = Append(st.helices[k].domain_list, ref),
        !.dlist = Append(st.dlist, ref),
        !.num_domains = st.num_domains + 1,
        !.bases = [b \in 1..Len(st.bases) |->
                     IF b \in inside THEN [st.bases[b] EXCEPT !.domain = domain.id]
                                     ELSE st.bases[b]]]

RECURSIVE DomainLoop(_, _, _, _, _, _, _, _)
DomainLoop(i, start, st, k, base_list, strand_breaks, reverse, strs) ==
  IF i >= Len(strand_breaks) THEN st
  ELSE IF ~(strand_breaks[i + 1] /\ base_list[i + 1] # None)
    THEN DomainLoop(i + 1, start, st, k, base_list, strand_breaks, reverse, strs)
  ELSE IF start # -1
    THEN DomainLoop(i + 1, -1, CloseDomain(st, k, start, i, base_list, reverse, strs),
                    k, base_list, strand_breaks, reverse, strs)
  ELSE DomainLoop(i + 1, i, st, k, base_list, strand_breaks, reverse, strs)

\* variant: the scaffold breaks are set on a fresh array
HelixStrandBreaksFresh(helix, bases) ==
  LET helix_size == Len(helix.scaffold_base_list)
  IN SetStrandBreaks([i \in 1..helix_size |-> FALSE], helix.scaffold_base_list, bases)

\* the strand_breaks array of helix k: staple breaks, then scaffold breaks
HelixStrandBreaks(helix, bases) ==
  LET helix_size == Len(helix.scaffold_base_list)
  IN SetStrandBreaks(SetStrandBreaks([i \in 1..helix_size |-> FALSE],
                                     helix.staple_base_list, bases),
                     helix.scaffold_base_list, bases)

\* the body of the loop over helices, for helix k
HelixDomains(st, k, strs) ==
  LET helix == st.helices[k]
      three_to_five == (helix.scaffold_polarity = "3'")
  IN IF StrandBreaksRaises(helix.staple_base_list)
          \/ StrandBreaksRaises(helix.scaffold_base_list)
       THEN [st EXCEPT !.err = TRUE]
       ELSE LET strand_breaks == HelixStrandBreaks(helix, st.bases)
                st1 == DomainLoop(0, -1, st, k, helix.staple_base_list, strand_breaks,
                                  ~three_to_five, strs)
            IN DomainLoop(0, -1, st1, k, helix.scaffold_base_list, strand_breaks,
                          three_to_five, strs)

RECURSIVE HelixLoop(_, _, _)
HelixLoop(k, st, strs) ==
  IF k > Len(st.helices) \/ st.err THEN st
  ELSE HelixLoop(k + 1, HelixDomains(st, k, strs), strs)

\* variant: only the first base of the list is looked at
FirstAcrossOfFirstBase(base_list, bases) ==
  IF base_list = <<>> THEN -1 ELSE bases[base_list[1]].across

\* the first base of a domain's base list with a present across value, or -1
FirstAcross(base_list, bases) ==
  IF \E m \in 1..Len(base_list) : bases[base_list[m]].across # -1
    THEN bases[base_list[CHOOSE m \in 1..Len(base_list) :
                 /\ bases[base_list[m]].across # -1
                 /\ \A n \in 1..(m - 1) : bases[base_list[n]].across = -1]].across
    ELSE -1

\* the post-pass over self.domain_list: connected_strand and connected_domain
ResolvePairing(heap, dlist, bases) ==
  LET listed == {dlist[m] : m \in 1..Len(dlist)}
      Resolved(domain) ==
        LET across == FirstAcross(domain.base_list, bases)
        IN IF across # -1
             THEN [domain EXCEPT !.connected_strand = bases[across].strand,
                                 !.connected_domain = bases[across].domain]
             ELSE [domain EXCEPT !.connected_strand = -1, !.connected_domain = -1]
  IN [r \in 1..Len(heap) |-> IF r \in listed THEN Resolved(heap[r]) ELSE heap[r]]

\* variant: the id counter goes on from the domains of earlier runs
ComputeDomainsCountingOn(bases, heap, helices, smap, strs) ==
  LET st0 == [bases |-> bases, heap |-> heap, dlist |-> <<>>, helices |-> helices,
              smap |-> smap, num_domains |-> Len(heap), err |-> FALSE]
      st1 == HelixLoop(1, st0, strs)
  IN IF st1.err THEN st1
     ELSE [st1 EXCEPT !.heap = ResolvePairing(st1.heap, st1.dlist, st1.bases)]

\* variant: self.domain_list is not emptied on entry
ComputeDomainsKeepingList(bases, heap, helices, smap, strs) ==
  LET st0 == [bases |-> bases, heap |-> heap, dlist |-> domain_list, helices |-> helices,
              smap |-> smap, num_domains |-> 0, err |-> FALSE]
      st1 == HelixLoop(1, st0, strs)
  IN IF st1.err THEN st1
     ELSE [st1 EXCEPT !.heap = ResolvePairing(st1.heap, st1.dlist, st1.bases)]

\* _compute_domains: num_domains = 0, self.domain_list = [], the loop over the
\* helices and, unless the loop raised, the post-pass
ComputeDomains(bases, heap, helices, smap, strs) ==
  LET st0 == [bases |-> bases, heap |-> heap, dlist |-> <<>>, helices |-> helices,
              smap |-> smap, num_domains |-> 0, err |-> FALSE]
      st1 == HelixLoop(1, st0, strs)
  IN IF st1.err THEN st1
     ELSE [st1 EXCEPT !.heap = ResolvePairing(st1.heap, st1.dlist, st1.bases)]

-----------------------------------------------------------------------------
(* DnaStructure._set_helix_connectivity.  DnaHelixConnection.__init__ also *)
(* computes a direction vector from the helix geometry (not modelled); it  *)
(* reads the first staple base of both helices, which exists once          *)
(* _compute_domains has returned.                                          *)

\* variant: a distance of at most 1, which connects a helix to itself
AdjacentOrSame(helix1, helix2) ==
  Abs(helix1.lattice_row - helix2.lattice_row)
    + Abs(helix1.lattice_col - helix2.lattice_col) <= 1

Adjacent(helix1, helix2) ==
  Abs(helix1.lattice_row - helix2.lattice_row)
    + Abs(helix1.lattice_col - helix2.lattice_col) = 1

DnaHelixConnection(k1, k2) == [from_helix |-> k1, to_helix |-> k2, crossovers |-> <<>>]

HelixConnectivity(helices, k1) ==
  LET all == [k2 \in 1..Len(helices) |-> DnaHelixConnection(k1, k2)]
      Connected(c) == Adjacent(helices[k1], helices[c.to_helix])
  IN SelectSeq(all, Connected)

SetHelixConnectivity(helices) ==
  [k \in 1..Len(helices) |->
     [helices[k] EXCEPT !.helix_connectivity = HelixConnectivity(helices, k)]]

-----------------------------------------------------------------------------
(* DnaStructureHelix.compute_design_crossovers *)

DnaCrossover(k, base, strand) == [helix |-> k, crossover_base |-> base.id, strand |-> strand]

\* variant: the up link is tested only when the down link gave no crossover
BaseCrossoversElif(k, base, num, bases) ==
  IF base.down # -1 /\ bases[base.down].h # base.h /\ bases[base.down].h = num
    THEN <<DnaCrossover(k, base, base.strand)>>
  ELSE IF base.up # -1 /\ bases[base.up].h # base.h /\ bases[base.up].h = num
    THEN <<DnaCrossover(k, base, base.strand)>>
  ELSE <<>>

\* variant: only the down link is followed
BaseCrossoversDownOnly(k, base, num, bases) ==
  IF base.down # -1 /\ bases[base.down].h # base.h /\ bases[base.down].h = num
    THEN <<DnaCrossover(k, base, base.strand)>> ELSE <<>>

\* variant: only the up link is followed
BaseCrossoversUpOnly(k, base, num, bases) ==
  IF base.up # -1 /\ bases[base.up].h # base.h /\ bases[base.up].h = num
    THEN <<DnaCrossover(k, base, base.strand)>> ELSE <<>>

\* the crossovers one base adds to a connection to helix num: via down, then via up
BaseCrossovers(k, base, num, bases) ==
  (IF base.down # -1 /\ bases[base.down].h # base.h /\ bases[base.down].h = num
     THEN <<DnaCrossover(k, base, base.strand)>> ELSE <<>>)
  \o
  (IF base.up # -1 /\ bases[base.up].h # base.h /\ bases[base.up].h = num
     THEN <<DnaCrossover(k, base, base.strand)>> ELSE <<>>)

RECURSIVE ListCrossovers(_, _, _, _, _)
ListCrossovers(i, base_list, k, num, bases) ==
  IF i > Len(base_list) THEN <<>>
  ELSE (IF base_list[i] = None THEN <<>>
        ELSE BaseCrossovers(k, bases[base_list[i]], num, bases))
       \o ListCrossovers(i + 1, base_list, k, num, bases)

ConnectionCrossovers(helices, k, connection, bases) ==
  LET num == helices[connection.to_helix].lattice_num
  IN [connection EXCEPT !.crossovers =
        connection.crossovers
          \o ListCrossovers(1, helices[k].staple_base_list, k, num, bases)
          \o ListCrossovers(1, helices[k].scaffold_base_list, k, num, bases)]

ComputeDesignCrossovers(helices, k, bases) ==
  [helices[k] EXCEPT !.helix_connectivity =
     [c \in 1..Len(helices[k].helix_connectivity) |->
        ConnectionCrossovers(helices, k, helices[k].helix_connectivity[c], bases)]]

\* DnaStructure._compute_helix_design_crossovers
ComputeHelixDesignCrossovers(helices, bases) ==
  [k \in 1..Len(helices) |-> ComputeDesignCrossovers(helices, k, bases)]

\* get_strand is called once per crossover found
CrossoversFound(helices) ==
  \E k \in 1..Len(helices) : \E c \in 1..Len(helices[k].helix_connectivity) :
    helices[k].helix_connectivity[c].crossovers # <<>>

-----------------------------------------------------------------------------

Init ==
  \E d \in Designs :
    /\ base_connectivity = BuildBases(d)
    /\ strands = BuildStrands(BuildBases(d))
    /\ strands_map = EmptyMap
    /\ structure_helices = BuildHelices(d)
    /\ domain_list = <<>>
    /\ domain_heap = <<>>
    /\ pc = "idle"
    /\ error = FALSE
    /\ last_call = "none"
    /\ num_calls = 0
    /\ compute_runs = 0
    /\ complete_runs = 0
    /\ lookup = [id |-> None, strand |-> None]

-----------------------------------------------------------------------------
(* compute_aux_data(), one action per statement.  Its first statements set *)
(* strand.dna_structure and the strands' helix references (DnaStrand       *)
(* state, which no derivation below reads) and bucket the bases.           *)

AuxSetHelixBases ==
  /\ pc = "idle"
  /\ num_calls < MaxCalls
  /\ num_calls' = num_calls + 1
  /\ error' = FALSE
  /\ structure_helices' = SetHelixBases(structure_helices, base_connectivity)
  /\ last_call' = "compute_aux_data"
  /\ pc' = "compute_domains"
  /\ UNCHANGED <<base_connectivity, strands, strands_map, domain_list, domain_heap,
                 compute_runs, complete_runs, lookup>>

\* the effect of one run of _compute_domains on the structure
RunComputeDomains ==
  LET st == ComputeDomains(base_connectivity, domain_heap, structure_helices,
                           strands_map, strands)
  IN /\ base_connectivity' = st.bases
     /\ domain_heap' = st.heap
     /\ domain_list' = st.dlist
     /\ structure_helices' = st.helices
     /\ strands_map' = st.smap
     /\ error' = st.err
     /\ compute_runs' = compute_runs + 1
     /\ complete_runs' = IF st.err THEN complete_runs ELSE complete_runs + 1

AuxComputeDomains ==
  /\ pc = "compute_domains"
  /\ RunComputeDomains
  /\ pc' = IF error' THEN "idle" ELSE "set_helix_connectivity"
  /\ UNCHANGED <<strands, last_call, num_calls, lookup>>

AuxSetHelixConnectivity ==
  /\ pc = "set_helix_connectivity"
  /\ structure_helices' = SetHelixConnectivity(structure_helices)
  /\ pc' = "compute_helix_design_crossovers"
  /\ UNCHANGED <<base_connectivity, strands, strands_map, domain_list, domain_heap,
                 error, last_call, num_calls, compute_runs, complete_runs, lookup>>

AuxComputeHelixDesignCrossovers ==
  /\ pc = "compute_helix_design_crossovers"
  /\ structure_helices' = ComputeHelixDesignCrossovers(structure_helices, base_connectivity)
  /\ strands_map' = IF CrossoversFound(structure_helices')
                      THEN BuildStrandsMap(strands_map, strands) ELSE strands_map
  /\ pc' = "idle"
  /\ UNCHANGED <<base_connectivity, strands, domain_list, domain_heap, error, last_call,
                 num_calls, compute_runs, complete_runs, lookup>>

(* get_domains() *)
GetDomains ==
  /\ pc = "idle"
  /\ num_calls < MaxCalls
  /\ num_calls' = num_calls + 1
  /\ last_call' = "get_domains"
  /\ IF domain_list = <<>>
       THEN RunComputeDomains
       ELSE /\ error' = FALSE
            /\ UNCHANGED <<base_connectivity, domain_heap, domain_list, structure_helices,
                           strands_map, compute_runs, complete_runs>>
  /\ UNCHANGED <<strands, pc, lookup>>

\* an id no strand of the enumerated designs carries
MissingId == 9999

(* get_strand(id), called from outside with the id of the first or the last *)
(* strand of self.strands or with a missing id                              *)
LookupStrand ==
  /\ pc = "idle"
  /\ num_calls < MaxCalls
  /\ num_calls' = num_calls + 1
  /\ last_call' = "get_strand"
  /\ error' = FALSE
  /\ \E id \in {strands[i].id : i \in {1, Len(strands)} \cap DOMAIN strands}
                 \cup {MissingId} :
       LET r == GetStrand(strands_map, strands, id)
       IN /\ strands_map' = r.smap
          /\ lookup' = [id |-> id, strand |-> r.strand]
  /\ UNCHANGED <<base_connectivity, strands, structure_helices, domain_list, domain_heap,
                 pc, compute_runs, complete_runs>>

Next ==
  \/ AuxSetHelixBases
  \/ AuxComputeDomains
  \/ AuxSetHelixConnectivity
  \/ AuxComputeHelixDesignCrossovers
  \/ GetDomains
  \/ LookupStrand


Spec == Init /\ [][Next]_vars

-----------------------------------------------------------------------------
(* Vocabulary of the properties. *)

\* compute_aux_data() was the last call and returned normally
AfterAux == pc = "idle" /\ last_call = "compute_aux_data" /\ ~error

HelixIds == 1..Len(structure_helices)

BaseIds == 1..Len(base_connectivity)

Range(seq) == {seq[i] : i \in 1..Len(seq)}

\* the bases stored in the staple or scaffold array of helix k
HelixBases(k) ==
  (Range(structure_helices[k].staple_base_list)
     \cup Range(structure_helices[k].scaffold_base_list)) \ {None}

\* the bases stored in the array of one role of helix k
RoleBases(k, scaf) ==
  Range(IF scaf THEN structure_helices[k].scaffold_base_list
                ELSE structure_helices[k].staple_base_list) \ {None}

\* the Domain objects of self.domain_list
Domains == {domain_heap[domain_list[m]] : m \in 1..Len(domain_list)}

\* the indices of self.domain_list whose domain lists base b
DomainsHolding(b) ==
  {m \in 1..Len(domain_list) : b \in Range(domain_heap[domain_list[m]].base_list)}

\* the connections of helix k1 to helix k2
Connections(k1, k2) ==
  {c \in 1..Len(structure_helices[k1].helix_connectivity) :
     structure_helices[k1].helix_connectivity[c].to_helix = k2}

\* the Crossover objects on the connections of helix k1 to helix k2
Crossovers(k1, k2) ==
  {<<c, i>> \in Connections(k1, k2) \X BaseIds :
     i <= Len(structure_helices[k1].helix_connectivity[c].crossovers)}

\* those among them whose crossover_base is b
CrossoversAt(k1, k2, b) ==
  {x \in Crossovers(k1, k2) :
     structure_helices[k1].helix_connectivity[x[1]].crossovers[x[2]].crossover_base = b}

\* the links (down, up) of base b that are present and lead to a base of
\* another helix, the one with lattice_num num
LinksOnto(b, num) ==
  {l \in {"down", "up"} :
     LET t == IF l = "down" THEN base_connectivity[b].down ELSE base_connectivity[b].up
     IN t # -1 /\ base_connectivity[t].h = num
          /\ base_connectivity[t].h # base_connectivity[b].h}

LatticeDistance(k1, k2) ==
  Abs(structure_helices[k1].lattice_row - structure_helices[k2].lattice_row)
    + Abs(structure_helices[k1].lattice_col - structure_helices[k2].lattice_col)

\* the strand links <<a, b>> (a.down = b, b.up = a) that change helix
CrossoverEdges ==
  {e \in BaseIds \X BaseIds :
     /\ base_connectivity[e[1]].down = e[2]
     /\ base_connectivity[e[2]].up = e[1]
     /\ base_connectivity[e[1]].h # base_connectivity[e[2]].h}

HelixOf(b) == CHOOSE k \in HelixIds :
                structure_helices[k].lattice_num = base_connectivity[b].h

-----------------------------------------------------------------------------
(* C1: after compute_aux_data() on a structure whose helices all hold a    *)
(* staple and a scaffold base, every base of a helix array has its domain  *)
(* id set and is listed by exactly one domain of the structure.            *)

C1_Coverage ==
  (AfterAux /\ \A k \in HelixIds : RoleBases(k, FALSE) # {} /\ RoleBases(k, TRUE) # {})
    => \A k \in HelixIds : \A b \in HelixBases(k) :
         /\ base_connectivity[b].domain # Unset
         /\ Cardinality(DomainsHolding(b)) = 1

-----------------------------------------------------------------------------
(* C2: after compute_design_crossovers on a helix, each of its connections *)
(* holds one Crossover per pair (base of the helix, link in {down, up})    *)
(* whose link is present and leads to the connection's to helix, and no    *)
(* other Crossover.                                                        *)

C2_CrossoverList ==
  AfterAux =>
    \A k \in HelixIds : \A c \in 1..Len(structure_helices[k].helix_connectivity) :
      LET connection == structure_helices[k].helix_connectivity[c]
          num == structure_helices[connection.to_helix].lattice_num
          At(b) == {i \in 1..Len(connection.crossovers) :
                      connection.crossovers[i].crossover_base = b}
      IN /\ \A b \in HelixBases(k) : Cardinality(At(b)) = Cardinality(LinksOnto(b, num))
         /\ \A i \in 1..Len(connection.crossovers) :
              connection.crossovers[i].crossover_base \in HelixBases(k)

\* C2 witness: a base contributes two crossovers to one connection
C2_Witness ==
  /\ AfterAux
  /\ \E k1, k2 \in HelixIds : \E b \in HelixBases(k1) :
       Cardinality(CrossoversAt(k1, k2, b)) = 2

-----------------------------------------------------------------------------
(* C3: after _set_helix_connectivity, helix H1 has a connection to helix   *)
(* H2 iff |row1-row2| + |col1-col2| = 1, and then exactly one; a 3x3 grid  *)
(* of helices has 24 directed connections.                                 *)

ConnectivitySet == pc = "compute_helix_design_crossovers" \/ AfterAux

IsGrid3x3 ==
  /\ Len(structure_helices) = 9
  /\ {<<structure_helices[k].lattice_row, structure_helices[k].lattice_col>> : k \in HelixIds}
       = (0..2) \X (0..2)

AllConnections ==
  {<<k, c>> \in HelixIds \X HelixIds : c <= Len(structure_helices[k].helix_connectivity)}

C3_Adjacency ==
  ConnectivitySet =>
    /\ \A k1, k2 \in HelixIds :
         Cardinality(Connections(k1, k2)) = IF LatticeDistance(k1, k2) = 1 THEN 1 ELSE 0
    /\ \A k1, k2 \in HelixIds : Connections(k1, k2) # {} <=> Connections(k2, k1) # {}
    /\ \A k \in HelixIds : Connections(k, k) = {}
    /\ \A k \in HelixIds :
         Len(structure_helices[k].helix_connectivity)
           = Cardinality({k2 \in HelixIds : Connections(k, k2) # {}})
    /\ IsGrid3x3 => Cardinality(AllConnections) = 24

C3_Witness ==
  /\ pc = "compute_helix_design_crossovers"
  /\ IsGrid3x3
  /\ Cardinality(AllConnections) = 24

-----------------------------------------------------------------------------
(* C4: the end-to-end scenario: helices 0 and 1, lattice-adjacent, 10      *)
(* positions each, every position holding a paired staple and scaffold     *)
(* base, and one staple crossover at position 5 between helix 0 and 1.     *)

SiteBases(num, scaf, p) ==
  {b \in BaseIds : /\ base_connectivity[b].h = num
                   /\ base_connectivity[b].is_scaf = scaf
                   /\ base_connectivity[b].p = p}

EndToEndScenario ==
  /\ Len(structure_helices) = 2
  /\ structure_helices[1].lattice_num = 0 /\ structure_helices[2].lattice_num = 1
  /\ LatticeDistance(1, 2) = 1
  /\ \A k \in HelixIds : structure_helices[k].hsize = 10
  /\ \A num \in 0..1 : \A scaf \in BOOLEAN : \A p \in 0..9 :
       /\ Cardinality(SiteBases(num, scaf, p)) = 1
       /\ \A b \in SiteBases(num, scaf, p) : base_connectivity[b].across # -1
  /\ \A b \in BaseIds : base_connectivity[b].p \in 0..9
  /\ Cardinality(CrossoverEdges) = 1
  /\ \A e \in CrossoverEdges : \A b \in {e[1], e[2]} :
       ~base_connectivity[b].is_scaf /\ base_connectivity[b].p = 5

\* C4 as claimed: in the end-to-end scenario, one crossover on the connection
\* 0->1 and none on 1->0
C4_OneDirection ==
  (AfterAux /\ EndToEndScenario) =>
    /\ Cardinality(Crossovers(1, 2)) = 1
    /\ Cardinality(Crossovers(2, 1)) = 0

\* C4 as amended: in the end-to-end scenario, one crossover on each of the two
\* connections, at the staple base of its from helix at position 5
C4_BothDirections ==
  (AfterAux /\ EndToEndScenario) =>
    /\ Cardinality(Crossovers(1, 2)) = 1
    /\ Cardinality(Crossovers(2, 1)) = 1
    /\ \A b \in SiteBases(0, FALSE, 5) : Cardinality(CrossoversAt(1, 2, b)) = 1
    /\ \A b \in SiteBases(1, FALSE, 5) : Cardinality(CrossoversAt(2, 1, b)) = 1

C4_Witness ==
  /\ AfterAux /\ EndToEndScenario
  /\ \E e \in CrossoverEdges : base_connectivity[e[1]].h = 0
  /\ Cardinality(Crossovers(2, 1)) = 1

-----------------------------------------------------------------------------
(* C5: for a strand link a.down = b, b.up = a between lattice-adjacent     *)
(* helices A and B, after compute_aux_data() the connection A->B holds a   *)
(* Crossover at a and B->A one at b, and each of the two connections holds *)
(* exactly one Crossover per crossover edge between A and B.               *)

EdgesBetween(k1, k2) ==
  {e \in CrossoverEdges : {HelixOf(e[1]), HelixOf(e[2])} = {k1, k2}}

C5_CrossoverSymmetry ==
  AfterAux =>
    \A e \in CrossoverEdges :
      LET A == HelixOf(e[1])
          B == HelixOf(e[2])
      IN LatticeDistance(A, B) = 1 =>
           /\ Cardinality(Connections(A, B)) = 1
           /\ Cardinality(Connections(B, A)) = 1
           /\ Cardinality(CrossoversAt(A, B, e[1]))
                = Cardinality({f \in EdgesBetween(A, B) : e[1] \in {f[1], f[2]}})
           /\ Cardinality(CrossoversAt(B, A, e[2]))
                = Cardinality({f \in EdgesBetween(A, B) : e[2] \in {f[1], f[2]}})
           /\ Cardinality(Crossovers(A, B)) = Cardinality(EdgesBetween(A, B))
           /\ Cardinality(Crossovers(B, A)) = Cardinality(EdgesBetween(A, B))

C5_Witness ==
  /\ AfterAux
  /\ \E e \in CrossoverEdges :
       /\ LatticeDistance(HelixOf(e[1]), HelixOf(e[2])) = 1
       /\ Cardinality(CrossoversAt(HelixOf(e[1]), HelixOf(e[2]), e[1])) = 1
       /\ Cardinality(CrossoversAt(HelixOf(e[2]), HelixOf(e[1]), e[2])) = 1

-----------------------------------------------------------------------------
(* Vocabulary of the domain properties. *)

\* the helix positions of the bases a domain lists
Positions(domain) == {base_connectivity[b].p : b \in Range(domain.base_list)}

\* the domains of the structure on the helix with lattice_num num whose
\* bases have the given role
RoleDomains(num, scaf) ==
  {m \in 1..Len(domain_list) :
     /\ domain_heap[domain_list[m]].helix = num
     /\ \A b \in Range(domain_heap[domain_list[m]].base_list) :
          base_connectivity[b].is_scaf = scaf}

RolePositions(num, scaf) ==
  {Positions(domain_heap[domain_list[m]]) : m \in RoleDomains(num, scaf)}

-----------------------------------------------------------------------------
(* C6: a helix with staple and scaffold bases at positions 0..9, no        *)
(* crossovers, strand termini only at 0 and 9 and across = -1 exactly at   *)
(* positions 4 and 5 gets 3 domains per role, on positions 0-3, 4-5, 6-9.  *)

BoundaryScenario ==
  /\ Len(structure_helices) = 1
  /\ structure_helices[1].hsize = 10
  /\ \A scaf \in BOOLEAN : \A p \in 0..9 :
       Cardinality(SiteBases(structure_helices[1].lattice_num, scaf, p)) = 1
  /\ CrossoverEdges = {}
  /\ \A b \in BaseIds :
       /\ base_connectivity[b].p \in 0..9
       /\ (base_connectivity[b].up = -1 \/ base_connectivity[b].down = -1)
            => base_connectivity[b].p \in {0, 9}
       /\ IF base_connectivity[b].p \in {4, 5}
            THEN base_connectivity[b].across = -1
            ELSE base_connectivity[b].across > 0

C6_BoundaryDomains ==
  (complete_runs >= 1 /\ BoundaryScenario) =>
    \A scaf \in BOOLEAN :
      /\ Cardinality(RoleDomains(structure_helices[1].lattice_num, scaf)) = 3
      /\ RolePositions(structure_helices[1].lattice_num, scaf) = {0..3, 4..5, 6..9}

C6_Witness ==
  /\ complete_runs >= 1 /\ BoundaryScenario
  /\ Len(domain_list) = 6
  /\ \E m \in 1..Len(domain_list) : Positions(domain_heap[domain_list[m]]) = 4..5

-----------------------------------------------------------------------------
(* C7: the end-to-end scenario gets 2 domains per helix per role, split at *)
(* position 5.                                                             *)

C7_EndToEndDomains ==
  (complete_runs >= 1 /\ EndToEndScenario) =>
    \A num \in 0..1 : \A scaf \in BOOLEAN :
      /\ Cardinality(RoleDomains(num, scaf)) = 2
      /\ RolePositions(num, scaf) \in {{0..5, 6..9}, {0..4, 5..9}}

C7_Witness ==
  /\ complete_runs >= 1 /\ EndToEndScenario
  /\ Len(domain_list) = 8
  /\ RolePositions(0, FALSE) = {0..5, 6..9}

-----------------------------------------------------------------------------
(* C8: after domain computation a domain with a paired base has the domain *)
(* id and strand id of the base across its first paired base (in base-list *)
(* order) as connected_domain and connected_strand, a domain without one   *)
(* has -1 for both, and resolving the pairing again changes nothing.       *)

PairedIndices(domain) ==
  {n \in 1..Len(domain.base_list) : base_connectivity[domain.base_list[n]].across # -1}

C8_DomainPairing ==
  complete_runs >= 1 =>
    /\ \A D \in Domains :
         IF PairedIndices(D) # {}
           THEN LET x == base_connectivity[D.base_list[SetMin(PairedIndices(D))]]
                    y == base_connectivity[x.across]
                IN D.connected_domain = y.domain /\ D.connected_strand = y.strand
           ELSE D.connected_domain = -1 /\ D.connected_strand = -1
    /\ ResolvePairing(domain_heap, domain_list, base_connectivity) = domain_heap

\* C8 witness: a domain whose first base is unpaired and a later one paired,
\* and a domain without any paired base
C8_Witness ==
  /\ complete_runs >= 1
  /\ \E D \in Domains :
       /\ PairedIndices(D) # {} /\ 1 \notin PairedIndices(D)
       /\ D.connected_domain >= 0
  /\ \E D \in Domains : PairedIndices(D) = {} /\ D.connected_domain = -1

-----------------------------------------------------------------------------
(* C9: once _compute_domains has run to its end, a get_domains() call      *)
(* returns the memoised list and does not run it again.                    *)

C9_ComputedOnce ==
  [][(last_call' = "get_domains" /\ num_calls' = num_calls + 1 /\ complete_runs >= 1)
       => compute_runs' = compute_runs]_vars

-----------------------------------------------------------------------------
(* C10: what a second run of the domain computation leaves, against what a *)
(* single run on the freshly bucketed structure produces.                  *)

SingleRun ==
  ComputeDomains([b \in BaseIds |-> [base_connectivity[b] EXCEPT !.domain = Unset]],
                 <<>>,
                 [k \in HelixIds |-> [structure_helices[k] EXCEPT !.domain_list = <<>>]],
                 EmptyMap, strands)

\* the Domain objects a list of references stands for
Listed(heap, dlist) == [m \in 1..Len(dlist) |-> heap[dlist[m]]]

\* C10 as claimed: after a second run the structure's domain list and every
\* helix's domain list hold more domains than a single run produces
C10_AllListsGrow ==
  LET single == SingleRun
  IN (complete_runs >= 2 /\ Len(single.dlist) >= 1) =>
       /\ Len(domain_list) > Len(single.dlist)
       /\ \A k \in HelixIds :
            Len(structure_helices[k].domain_list) > Len(single.helices[k].domain_list)

\* C10 as amended: after a second run the structure's list and the bases'
\* back-references are those of a single run, and a helix's list holds its
\* domains once per run
C10_HelixListsGrow ==
  LET single == SingleRun
  IN complete_runs >= 2 =>
       /\ Len(domain_list) = Len(single.dlist)
       /\ Listed(domain_heap, domain_list) = Listed(single.heap, single.dlist)
       /\ [b \in BaseIds |-> base_connectivity[b].domain]
            = [b \in BaseIds |-> single.bases[b].domain]
       /\ \A k \in HelixIds :
            Len(structure_helices[k].domain_list)
              = complete_runs * Len(single.helices[k].domain_list)

C10_Witness ==
  LET single == SingleRun
  IN /\ complete_runs = 2
     /\ Len(domain_list) >= 2
     /\ \E k \in HelixIds :
          /\ Len(single.helices[k].domain_list) >= 1
          /\ Len(structure_helices[k].domain_list) = 2 * Len(single.helices[k].domain_list)

-----------------------------------------------------------------------------
(* C11: get_strand(id) returns the strand whose id is id when the          *)
(* structure has one and None, without raising, when it has none; the      *)
(* call leaves the id -> strand index built for all strands, so a miss     *)
(* changes neither the index nor what any later lookup returns.            *)
(***************************************************************************)

StrandIds == {strands[i].id : i \in 1..Len(strands)}

C11_StrandLookup ==
  last_call = "get_strand" =>
    /\ ~error
    /\ DOMAIN strands_map = StrandIds
    /\ \A id \in StrandIds : strands[strands_map[id]].id = id
    /\ lookup.id \in StrandIds =>
         lookup.strand \in 1..Len(strands) /\ strands[lookup.strand].id = lookup.id
    /\ lookup.id \notin StrandIds => lookup.strand = None

\* C11 witness: a lookup of the missing id as the second call, on a structure
\* of several strands whose index is built
C11_Witness ==
  /\ last_call = "get_strand"
  /\ num_calls = 2
  /\ lookup.id = MissingId
  /\ lookup.strand = None
  /\ Cardinality(DOMAIN strands_map) >= 2

-----------------------------------------------------------------------------
(* C12: after _set_helix_bases the staple and the scaffold array of a      *)
(* helix have the same length, all helices have arrays of one length,      *)
(* every base b sits at index b.p of the array of its role on the helix    *)
(* whose lattice_num is b.h, and every other slot is empty.                *)
(***************************************************************************)

\* _set_helix_bases has run: compute_aux_data() is under way or was the last call
Bucketed == pc # "idle" \/ last_call = "compute_aux_data"

RoleList(k, scaf) ==
  IF scaf THEN structure_helices[k].scaffold_base_list
          ELSE structure_helices[k].staple_base_list

-----------------------------------------------------------------------------
(* C13: the break array of a helix is the union of the breaks of its       *)
(* staple array and of its scaffold array, each derived on its own: the    *)
(* first occupied position is a break; a later occupied position i is a    *)
(* break when its base's down or up link is -1 or leads to another helix;  *)
(* otherwise, when the sign of its across value differs from the sign      *)
(* carried from the last such base, positions i-1 and i are breaks; no     *)
(* other position is a break.                                              *)
(***************************************************************************)

\* the base at position i of a role's array
At(base_list, i) == base_connectivity[base_list[i + 1]]

Occupied(base_list, i) == i \in 0..(Len(base_list) - 1) /\ base_list[i + 1] # None

\* the down or the up link of the base is -1 or leads to another helix
LinkBreak(base) ==
  \/ base.down = -1
  \/ base.up = -1
  \/ base_connectivity[base.down].h # base.h
  \/ base_connectivity[base.up].h # base.h

RECURSIVE BreakKind(_, _), CarriedSign(_, _)
\* why position i of the array is marked: it is the first occupied position,
\* its base has a link break, or its across sign differs from the carried one
BreakKind(base_list, i) ==
  IF ~Occupied(base_list, i) THEN "none"
  ELSE IF \A j \in 0..(i - 1) : ~Occupied(base_list, j) THEN "first"
  ELSE IF LinkBreak(At(base_list, i)) THEN "link"
  ELSE IF Sign(At(base_list, i).across) # CarriedSign(base_list, i) THEN "flip"
  ELSE "none"

\* the across sign of the last marked base before position i
CarriedSign(base_list, i) ==
  Sign(At(base_list,
          SetMax({j \in 0..(i - 1) : BreakKind(base_list, j) # "none"})).across)

\* the breaks of one array derived on its own
RoleBreaks(base_list) ==
  [i \in 1..Len(base_list) |->
     \/ BreakKind(base_list, i - 1) # "none"
     \/ BreakKind(base_list, i) = "flip"]

NoBreaks(n) == [i \in 1..n |-> FALSE]

C13_BreakUnion ==
  Bucketed =>
    \A k \in HelixIds :
      LET helix == structure_helices[k]
          staple == helix.staple_base_list
          scaffold == helix.scaffold_base_list
      IN (~StrandBreaksRaises(staple) /\ ~StrandBreaksRaises(scaffold)) =>
           /\ SetStrandBreaks(NoBreaks(Len(staple)), staple, base_connectivity)
                = RoleBreaks(staple)
           /\ SetStrandBreaks(NoBreaks(Len(scaffold)), scaffold, base_connectivity)
                = RoleBreaks(scaffold)
           /\ HelixStrandBreaks(helix, base_connectivity)
                = [i \in 1..Len(scaffold) |-> RoleBreaks(staple)[i] \/ RoleBreaks(scaffold)[i]]

\* C13 witness: a helix whose staple array has a link break after its first
\* position that the scaffold array lacks, and a sign change
C13_Witness ==
  /\ Bucketed
  /\ \E k \in HelixIds :
       LET staple == structure_helices[k].staple_base_list
           scaffold == structure_helices[k].scaffold_base_list
       IN /\ ~StrandBreaksRaises(staple) /\ ~StrandBreaksRaises(scaffold)
          /\ \E i \in 1..(Len(staple) - 1) :
               BreakKind(staple, i) = "link" /\ ~RoleBreaks(scaffold)[i + 1]
          /\ \E i \in 1..(Len(staple) - 1) : BreakKind(staple, i) = "flip"

-----------------------------------------------------------------------------
(* C14: after domain computation all bases of a domain carry one strand    *)
(* id, which is the id of the domain's strand and the strand of its first  *)
(* base, all of them lie on the domain's helix, and the domain's color is  *)
(* the color of that strand.                                               *)
(***************************************************************************)

\* the strands of self.strands with the given id
StrandsWithId(id) == {i \in 1..Len(strands) : strands[i].id = id}

C14_OneStrand ==
  AfterAux =>
    \A D \in Domains :
      /\ \A b \in Range(D.base_list) :
           /\ base_connectivity[b].strand = D.strand
           /\ base_connectivity[b].h = D.helix
      /\ D.base_list # <<>> => base_connectivity[D.base_list[1]].strand = D.strand
      /\ \A i \in StrandsWithId(D.strand) : D.color = strands[i].color

-----------------------------------------------------------------------------
(* C15: on a helix without crossovers whose strand termini are at the      *)
(* first and last occupied position of their array only, no domain holds   *)
(* both a paired and an unpaired base, whatever the lengths of the paired  *)
(* and unpaired runs.                                                      *)
(***************************************************************************)

\* the positions of the bases of one role on helix k
OccupiedPositions(k, scaf) == {base_connectivity[b].p : b \in RoleBases(k, scaf)}

\* no base of helix k links to another helix, the bases of a role are one
\* strand, and the bases without an up or down link sit at the first or last
\* occupied position of their array
PlainHelix(k) ==
  \A b \in HelixBases(k) :
    LET base == base_connectivity[b]
        ps == OccupiedPositions(k, base.is_scaf)
    IN /\ \A c \in RoleBases(k, base.is_scaf) : base_connectivity[c].strand = base.strand
       /\ base.up # -1 => base_connectivity[base.up].h = base.h
       /\ base.down # -1 => base_connectivity[base.down].h = base.h
       /\ (base.up = -1 \/ base.down = -1) =>
            (\A q \in ps : base.p <= q) \/ (\A q \in ps : base.p >= q)

Mixed(D) ==
  /\ \E b \in Range(D.base_list) : base_connectivity[b].across # -1
  /\ \E b \in Range(D.base_list) : base_connectivity[b].across = -1

C15_OnePairingState ==
  AfterAux =>
    \A k \in HelixIds :
      PlainHelix(k) =>
        \A D \in Domains : D.helix = structure_helices[k].lattice_num => ~Mixed(D)

-----------------------------------------------------------------------------
(* C16: after any sequence of compute_aux_data() and get_domains() calls   *)
(* the domains of the structure's domain list are listed in creation       *)
(* order with distinct, strictly increasing ids, and the domain with id k  *)
(* is the element at index k of the list.                                  *)
(***************************************************************************)

C16_IdIsIndex ==
  pc = "idle" =>
    /\ \A m \in 1..Len(domain_list) : domain_heap[domain_list[m]].id = m - 1
    /\ \A m, n \in 1..Len(domain_list) :
         m < n => /\ domain_list[m] < domain_list[n]
                  /\ domain_heap[domain_list[m]].id < domain_heap[domain_list[n]].id

\* C16 witness: a list of several domains left by a second complete run
C16_Witness ==
  /\ pc = "idle"
  /\ complete_runs = 2
  /\ Len(domain_list) >= 2

-----------------------------------------------------------------------------
(* C17: after compute_aux_data() the connected_domain of every domain is   *)
(* -1 or the id of a domain of the structure's domain list whose base      *)
(* list holds the base paired with the domain's first paired base; it is   *)
(* never the unset value.                                                  *)
(***************************************************************************)

C17_ConnectedDomain ==
  AfterAux =>
    \A D \in Domains :
      \/ D.connected_domain = -1
      \/ /\ D.connected_domain # Unset
         /\ \E E \in Domains :
              /\ E.id = D.connected_domain
              /\ PairedIndices(D) # {}
              /\ FirstAcross(D.base_list, base_connectivity) \in Range(E.base_list)

-----------------------------------------------------------------------------
(* C18: when the staple or the scaffold array of some helix holds no base, *)
(* the domain computation raises at the lookup of the array's first        *)
(* occupied position, and compute_aux_data() and get_domains() end in an   *)
(* error.                                                                  *)
(***************************************************************************)

\* a bucketed array of helix k without a base
EmptyArray(k) ==
  \E scaf \in BOOLEAN :
    /\ Len(RoleList(k, scaf)) >= 1
    /\ \A i \in 1..Len(RoleList(k, scaf)) : RoleList(k, scaf)[i] = None

C18_EmptyArrayRaises ==
  (/\ pc = "idle"
   /\ last_call \in {"compute_aux_data", "get_domains"}
   /\ \E k \in HelixIds : EmptyArray(k)) => error

====
